---- MODULE Spec2Model ----
(***************************************************************************)
(* Model of the two request guards of the repository:                      *)
(*   AuthorizationGuard                          (src/authorization.guard.ts) *)
(*   EnvironmentAndAuthorizationValidatorV1Guard (src/unnamed/part_000)    *)
(* One behaviour is one call of canActivate.  Every action is the code     *)
(* that runs between two suspension points (await) of that call; the       *)
(* collaborator's answer is chosen when the awaited lookup returns.        *)
(* JavaScript values are modelled as strings: "undefined" is the value     *)
(* undefined, "true"/"false" are the booleans of the metadata.             *)
(* An async function called without await runs up to its first await       *)
(* inside the caller's step; what it throws rejects its own promise         *)
(* (envPromise, sfPromise) and never reaches the caller's catch.            *)
(***************************************************************************)
EXTENDS Integers, Sequences, FiniteSets, TLC

VARIABLES
    guard,            \* which guard handles the request
    headers,          \* request.headers: organizationId, projectId, environmentId
    query,            \* request.query['deleted-status']
    meta,             \* the handler's metadata read through the reflector
    pc,               \* the await canActivate is suspended at
    calls,            \* the collaborator lookups issued so far, in order
    orgFilter,        \* organizationMemberFilters.deletedStatus
    pmFilter,         \* projectMemberFilters.deletedStatus
    envFilter,        \* environmentFilters.deletedStatus
    organizationMembers, \* answer of findAllOrganizationMembers
    project,          \* answer of findProjectById
    projectMember,    \* answer of findAllProjectMembers
    environment,      \* answer of findEnvironmentId
    requestProject,   \* request.project
    isUnAuthorized,   \* the flag of AuthorizationGuard.canActivate
    envPromise,       \* the promise of the un-awaited validateEnvironmentId call
    sfPromise,        \* the promise of the un-awaited validateSalesforceType call
    result,           \* "running", "allow" (returned true) or "deny" (threw)
    error,            \* the error canActivate threw, NoError before that
    \* ExceptionGroupManagementService and its repositories
    exceptionGroups,  \* the rows of the exception group table
    groupsAtStart,    \* the exception group table when the operation started
    logCalls,         \* the logAnExceptionGroup calls in flight: where each is
                      \* suspended and its existingGroupedException
    exceptionLogs,    \* per environment, how many exception logs the table holds
    groupedLogs,      \* per environment, how many logs setExceptionGroupId updated
    mapPc,            \* the await mapRecordsToExceptionGroupTable is suspended at
    environmentIndex, \* position of the for-of loop in environments.data
    stopFlag,         \* stopFlag of the paging loop
    skip,             \* skip of the paging loop
    mapResult         \* what mapRecordsToExceptionGroupTable returned

guardVars == <<guard, headers, query, meta, pc, calls, orgFilter, pmFilter, envFilter,
               organizationMembers, project, projectMember, environment,
               requestProject, isUnAuthorized, envPromise, sfPromise, result, error>>

serviceVars == <<exceptionGroups, groupsAtStart, logCalls, exceptionLogs, groupedLogs,
                 mapPc, environmentIndex, stopFlag, skip, mapResult>>

vars == <<guard, headers, query, meta, pc, calls, orgFilter, pmFilter, envFilter,
          organizationMembers, project, projectMember, environment,
          requestProject, isUnAuthorized, envPromise, sfPromise, result, error,
          exceptionGroups, groupsAtStart, logCalls, exceptionLogs, groupedLogs,
          mapPc, environmentIndex, stopFlag, skip, mapResult>>

-----------------------------------------------------------------------------
(* Bounds *)

\* largest totalCount a membership lookup answers with
MaxCount == 2

\* largest number of concurrent logAnExceptionGroup calls
MaxCalls == 3

\* largest number of environments findAllEnvironments answers with
MaxEnvironments == 2

\* largest number of full pages of exception logs an environment holds
MaxPages == 2

\* largest number of logs of an environment that have no exception group id
MaxUngrouped == 2

-----------------------------------------------------------------------------
(* Value domains *)

AG == "AuthorizationGuard"
EG == "EnvironmentAndAuthorizationValidatorV1Guard"

\* a header is absent, present but not a uuid, or a uuid
IdValues == {"absent", "malformed", "valid"}

\* uuid.validate
validate(id) == id = "valid"

\* JavaScript truthiness of a header / metadata value
Truthy(v) == v \notin {"absent", "undefined", "false"}

DeletedStatus == {"NOT_DELETED", "WITH_DELETED", "ONLY_DELETED"}

\* request.query['deleted-status']: free-form, not validated
QueryDeletedStatusValues == {"undefined", "ONLY_DELETED", "archived"}

FetchDeletedRecordsAccessLevel == {"ORGANIZATION", "PROJECT", "ENVIRONMENT"}

OrganizationUserRoles == {"OWNER", "MANAGER", "MEMBER"}

ProjectUserRoles == {"MANAGER", "MEMBER"}

\* roles a project membership record may carry
ProjectMemberRoleValues == {"OWNER", "MANAGER", "MEMBER"}

TypeValues == {"NORMAL", "SALESFORCE_ONLY"}

\* AuthorizationUserRole[role]: one bit per role, ascending privilege
AuthorizationUserRole(role) ==
    CASE role = "MEMBER"  -> 1
      [] role = "MANAGER" -> 2
      [] role = "OWNER"   -> 4
      [] OTHER            -> 0

\* MethodAccessRole as the int32 the & operator sees (undefined -> 0)
MethodAccessRole(name) ==
    CASE name = "OWNER"   -> 4
      [] name = "MANAGER" -> 6
      [] name = "MEMBER"  -> 7
      [] OTHER            -> 0

AccessRoleValues == {"undefined", "OWNER", "MANAGER", "MEMBER"}

RECURSIVE BitAnd(_, _)
\* JavaScript a & b on non-negative integers
BitAnd(a, b) ==
    IF a = 0 \/ b = 0 THEN 0
    ELSE (a % 2) * (b % 2) + 2 * BitAnd(a \div 2, b \div 2)

MetaValues ==
    [ accessRole : AccessRoleValues,
      projectAccessRole : {"undefined"} \cup ProjectUserRoles,
      FetchDeletedRecords : {"undefined", "true", "false"},
      FetchDeletedRecordsLevel : {"undefined"} \cup FetchDeletedRecordsAccessLevel,
      DisableFeatureForSalesforceType : {"undefined", "true"},
      isProjectValidationOptional : {"undefined", "true"} ]

-----------------------------------------------------------------------------
(* Collaborator answers *)

NoAnswer == [throws |-> FALSE, totalCount |-> -1, role |-> "none", type |-> "none"]

\* findAllOrganizationMembers: rejects, or {data, totalCount}; data[0] carries
\* getRole() and getOrganization().getType()
OrganizationMemberAnswers ==
    { [throws |-> TRUE, totalCount |-> -1, role |-> "none", type |-> "none"],
      [throws |-> FALSE, totalCount |-> 0, role |-> "none", type |-> "none"] }
    \cup [ throws : {FALSE}, totalCount : 1..MaxCount,
           role : OrganizationUserRoles, type : TypeValues ]

\* findAllProjectMembers: rejects, or {data, totalCount}; data[0] carries getRole()
ProjectMemberAnswers ==
    { [throws |-> TRUE, totalCount |-> -1, role |-> "none", type |-> "none"],
      [throws |-> FALSE, totalCount |-> 0, role |-> "none", type |-> "none"] }
    \cup [ throws : {FALSE}, totalCount : 1..MaxCount,
           role : ProjectMemberRoleValues, type : {"none"} ]

NoProject == [throws |-> FALSE, id |-> "none", type |-> "none"]

\* findProjectById: rejects (not found), or the ProjectDTO of that id
ProjectAnswers(projectId) ==
    { [throws |-> TRUE, id |-> "none", type |-> "none"] }
    \cup [ throws : {FALSE}, id : {projectId}, type : TypeValues ]

\* findEnvironmentId: rejects, answers falsy (not found) or a result
EnvironmentAnswers == {"throws", "notFound", "found"}

-----------------------------------------------------------------------------
(* Errors *)

NoError == [cls |-> "none", tag |-> "none", kind |-> "none", site |-> "none"]

\* an exception raised in the guard's code: its class, and (for the reader) the
\* kind of failure and the place that raised it
Raise(cls, kind, site) == [cls |-> cls, tag |-> "none", kind |-> kind, site |-> site]

BadRequestException(kind, site) == Raise("BadRequestException", kind, site)
UnauthorizedException(kind, site) == Raise("UnauthorizedException", kind, site)

\* new GuardValidationFailedException(type?) raised for the failure e.  The
\* class is a guard-validation-failed error of its own, carrying the type tag:
\* it is not an UnauthorizedException.
GuardValidationFailedException(tag, e) ==
    [cls |-> "GuardValidationFailedException", tag |-> tag,
     kind |-> e.kind, site |-> e.site]

\* error instanceof UnauthorizedException
InstanceOfUnauthorizedException(e) == e.cls = "UnauthorizedException"

\* AuthorizationGuard.handleError: always the UNAUTHORIZED tag
AG_handleError(e) == GuardValidationFailedException("UNAUTHORIZED_EXCEPTION", e)

\* variant: an error that is not an UnauthorizedException is rethrown as it is
EG_handleError_PassThrough(e) ==
    IF InstanceOfUnauthorizedException(e)
    THEN GuardValidationFailedException("UNAUTHORIZED_EXCEPTION", e)
    ELSE e

\* EnvironmentAndAuthorizationValidatorV1Guard.handleError
EG_handleError(e) ==
    IF InstanceOfUnauthorizedException(e)
    THEN GuardValidationFailedException("UNAUTHORIZED_EXCEPTION", e)
    ELSE GuardValidationFailedException("default", e)

-----------------------------------------------------------------------------
(* Deleted-record visibility *)

\* variant: an override that is not a DeletedStatus value is dropped
OrganizationDeletedStatus_KnownValuesOnly(level, fetchDeletedRecords, deletedStatusFromFilter) ==
    IF level = "ORGANIZATION"
    THEN IF Truthy(fetchDeletedRecords) THEN "WITH_DELETED"
         ELSE IF deletedStatusFromFilter \in DeletedStatus THEN deletedStatusFromFilter
         ELSE "NOT_DELETED"
    ELSE "NOT_DELETED"

\* variant: the declared level is not looked at
OrganizationDeletedStatus_AnyLevel(level, fetchDeletedRecords, deletedStatusFromFilter) ==
    IF Truthy(fetchDeletedRecords) THEN "WITH_DELETED"
    ELSE IF deletedStatusFromFilter # "undefined" THEN deletedStatusFromFilter
    ELSE "NOT_DELETED"

\* validateOrganizationMembers (both guards): deletedStatus of the filters
OrganizationDeletedStatus(level, fetchDeletedRecords, deletedStatusFromFilter) ==
    IF level = "ORGANIZATION"
    THEN IF Truthy(fetchDeletedRecords) THEN "WITH_DELETED"
         ELSE IF deletedStatusFromFilter # "undefined" THEN deletedStatusFromFilter
         ELSE "NOT_DELETED"
    ELSE "NOT_DELETED"

\* variant: the project tier uses the value of the other two tiers
getProjectMemberFilters_WithDeleted(level, fetchDeletedRecords, deletedStatusFromFilter) ==
    IF level = "PROJECT"
    THEN IF Truthy(fetchDeletedRecords) THEN "WITH_DELETED"
         ELSE IF deletedStatusFromFilter # "undefined" THEN deletedStatusFromFilter
         ELSE "NOT_DELETED"
    ELSE "NOT_DELETED"

\* getProjectMemberFilters (both guards): deletedStatus of the filters
getProjectMemberFilters(level, fetchDeletedRecords, deletedStatusFromFilter) ==
    IF level = "PROJECT"
    THEN IF Truthy(fetchDeletedRecords) THEN "ONLY_DELETED"
         ELSE IF deletedStatusFromFilter # "undefined" THEN deletedStatusFromFilter
         ELSE "NOT_DELETED"
    ELSE "NOT_DELETED"

\* validateEnvironmentId: deletedStatus of environmentFilters
EnvironmentDeletedStatus(level, fetchDeletedRecords, deletedStatusFromFilter) ==
    IF level = "ENVIRONMENT"
    THEN IF Truthy(fetchDeletedRecords) THEN "WITH_DELETED"
         ELSE IF deletedStatusFromFilter # "undefined" THEN deletedStatusFromFilter
         ELSE "NOT_DELETED"
    ELSE "NOT_DELETED"

-----------------------------------------------------------------------------
(* Role and tenant-type checks *)

\* variant: the role bit is compared with the mask as a number
OrganizationRoleInsufficient_NumericCompare(role, accessRole) ==
    AuthorizationUserRole(role) > MethodAccessRole(accessRole)

\* variant: the role must cover the whole mask
OrganizationRoleInsufficient_WholeMask(role, accessRole) ==
    BitAnd(AuthorizationUserRole(role), MethodAccessRole(accessRole))
        # MethodAccessRole(accessRole)

\* !(AuthorizationUserRole[role] & accessRole)
OrganizationRoleInsufficient(role, accessRole) ==
    BitAnd(AuthorizationUserRole(role), MethodAccessRole(accessRole)) = 0

\* variant: the gate ignores the organization type it is meant for
OrganizationSalesforceDenied_WrongType(members, disableFeatureForSalesforceType) ==
    members.type = "NORMAL" /\ Truthy(disableFeatureForSalesforceType)

\* organization gate: SALESFORCE_ONLY organization and the flag set
OrganizationSalesforceDenied(members, disableFeatureForSalesforceType) ==
    members.type = "SALESFORCE_ONLY" /\ Truthy(disableFeatureForSalesforceType)

\* project gate: one membership, SALESFORCE_ONLY project and the flag set
ProjectSalesforceDenied(proj, member, disableFeatureForSalesforceType) ==
    /\ member.totalCount = 1
    /\ proj.type = "SALESFORCE_ONLY"
    /\ Truthy(disableFeatureForSalesforceType)

\* variant: the branch is entered for organization Owners too
ProjectRoleChecked_OwnerIncluded(projectAccessRole, members) ==
    Truthy(projectAccessRole)

\* the project-role branch is entered: a role is declared and the caller is
\* not an organization Owner
ProjectRoleChecked(projectAccessRole, members) ==
    Truthy(projectAccessRole) /\ members.role # "OWNER"

\* variant: MEMBER is accepted whatever role is declared
projectUserRoles_MemberAlways(projectAccessRole) ==
    {"MANAGER", "MEMBER"}

\* projectUserRoles: MANAGER, and MEMBER when the declared role is MEMBER
projectUserRoles(projectAccessRole) ==
    {"MANAGER"} \cup (IF projectAccessRole = "MEMBER" THEN {"MEMBER"} ELSE {})

\* projectUserRoles.includes(projectMember.data[0].getRole())
ProjectRoleSufficient(projectAccessRole, member) ==
    member.role \in projectUserRoles(projectAccessRole)

\* variant: a caller without project membership passes the branch
ProjectRoleCheck_NoMembershipPasses(projectAccessRole, members, member) ==
    IF /\ ProjectRoleChecked(projectAccessRole, members)
       /\ member.totalCount > 0
       /\ ~ProjectRoleSufficient(projectAccessRole, member)
    THEN UnauthorizedException("InsufficientRole", "projectRole")
    ELSE NoError

\* the outcome of the project-role branch: NoError, or the exception it throws
ProjectRoleCheck(projectAccessRole, members, member) ==
    IF ProjectRoleChecked(projectAccessRole, members)
    THEN IF member.totalCount > 0
         THEN IF ~ProjectRoleSufficient(projectAccessRole, member)
              THEN UnauthorizedException("InsufficientRole", "projectRole")
              ELSE NoError
         ELSE UnauthorizedException("NotProjectMember", "projectRole")
    ELSE NoError

-----------------------------------------------------------------------------
(* State changes shared by the actions *)

\* canActivate throws e: the promise it returned rejects
Deny(e) ==
    /\ result' = "deny"
    /\ error' = e
    /\ pc' = "done"

\* canActivate returns true
Allow ==
    /\ result' = "allow"
    /\ error' = NoError
    /\ pc' = "done"

Issue(lookup) == calls' = Append(calls, lookup)

\* no operation of ExceptionGroupManagementService is running
ServiceIdle ==
    /\ exceptionGroups = {}
    /\ groupsAtStart = {}
    /\ logCalls = <<>>
    /\ exceptionLogs = <<>>
    /\ groupedLogs = <<>>
    /\ mapPc = "idle"
    /\ environmentIndex = 0
    /\ stopFlag = FALSE
    /\ skip = 0
    /\ mapResult = "none"

Init ==
    /\ ServiceIdle
    /\ guard \in {AG, EG}
    /\ headers \in [organizationId : IdValues, projectId : IdValues,
                    environmentId : IdValues]
    /\ query \in QueryDeletedStatusValues
    /\ meta \in MetaValues
    \* each guard is given only the inputs it reads
    /\ guard = AG => /\ headers.environmentId = "absent"
                     /\ meta.isProjectValidationOptional = "undefined"
    /\ guard = EG => meta.accessRole = "undefined"
    /\ pc = "start"
    /\ calls = <<>>
    /\ orgFilter = "unset"
    /\ pmFilter = "unset"
    /\ envFilter = "unset"
    /\ organizationMembers = NoAnswer
    /\ project = NoProject
    /\ projectMember = NoAnswer
    /\ environment = "none"
    /\ requestProject = NoProject
    /\ isUnAuthorized = FALSE
    /\ envPromise = "none"
    /\ sfPromise = "none"
    /\ result = "running"
    /\ error = NoError

-----------------------------------------------------------------------------
(* AuthorizationGuard *)

TypeError(site) == Raise("TypeError", "MissingHeader", site)
LookupError(site) == Raise("Error", "LookupFailure", site)

\* canActivate up to the await of findAllOrganizationMembers
AG_canActivate ==
    /\ guard = AG
    /\ pc = "start"
    /\ IF headers.organizationId = "absent"
       THEN \* headers[ORGANIZATION_ID].toString() throws
            /\ Deny(AG_handleError(TypeError("organizationId")))
            /\ UNCHANGED <<calls, orgFilter>>
       ELSE /\ orgFilter' = OrganizationDeletedStatus(meta.FetchDeletedRecordsLevel,
                                meta.FetchDeletedRecords, query)
            /\ Issue("organizationMember")
            /\ pc' = "organizationMember"
            /\ UNCHANGED <<result, error>>
    /\ UNCHANGED serviceVars
    /\ UNCHANGED <<guard, headers, query, meta, pmFilter, envFilter,
                   organizationMembers, project, projectMember, environment,
                   requestProject, isUnAuthorized, envPromise, sfPromise>>

\* variant: the tenant-type gate of the organization is left out
AG_OrganizationCheck_NoTenantGate(members) ==
    IF members.totalCount = 1
    THEN NoError
    ELSE BadRequestException("NotOrganizationMember", "organization")

\* the exception canActivate raises on the organization members, or NoError
AG_OrganizationCheck(members) ==
    IF members.totalCount = 1
    THEN IF OrganizationSalesforceDenied(members, meta.DisableFeatureForSalesforceType)
         THEN UnauthorizedException("TenantFeatureDisabled", "organization")
         ELSE NoError
    ELSE BadRequestException("NotOrganizationMember", "organization")

\* findAllOrganizationMembers returns: the rest of validateOrganizationMembers,
\* canActivate's checks, and validateProject up to the await of findProjectById
AG_OrganizationMembersReturn ==
    /\ guard = AG
    /\ pc = "organizationMember"
    /\ \E answer \in OrganizationMemberAnswers :
        IF answer.throws
        THEN \* caught in validateOrganizationMembers, then in canActivate
             /\ Deny(AG_handleError(AG_handleError(LookupError("organizationMember"))))
             /\ organizationMembers' = answer
             /\ UNCHANGED <<calls, isUnAuthorized>>
        ELSE /\ organizationMembers' = answer
             /\ IF AG_OrganizationCheck(answer) # NoError
                THEN /\ Deny(AG_handleError(AG_OrganizationCheck(answer)))
                     /\ UNCHANGED <<calls, isUnAuthorized>>
                ELSE /\ isUnAuthorized' =
                            OrganizationRoleInsufficient(answer.role, meta.accessRole)
                     /\ IF headers.projectId = "absent"
                        THEN \* headers[PROJECT_ID].toString() throws
                             /\ Deny(AG_handleError(TypeError("projectId")))
                             /\ UNCHANGED calls
                        ELSE /\ Issue("project")
                             /\ pc' = "project"
                             /\ UNCHANGED <<result, error>>
    /\ UNCHANGED serviceVars
    /\ UNCHANGED <<guard, headers, query, meta, orgFilter, pmFilter, envFilter,
                   project, projectMember, environment, requestProject,
                   envPromise, sfPromise>>

\* variant: a failed lookup is logged and not rethrown
getProjectById_Swallowed(answer) == NoError

\* getProjectById (both guards): a rejected findProjectById is rethrown as
\* BadRequestException; NoError when the project was found
getProjectById(answer) ==
    IF answer.throws
    THEN BadRequestException("ResourceNotFound", "project")
    ELSE NoError

\* variant: the project is resolved but not put on the request
AttachedProject_Nothing(proj) == NoProject

\* context.switchToHttp().getRequest().project = project: the value request.project
\* gets is the ProjectDTO getProjectById resolved
AttachedProject(proj) == proj

\* findProjectById returns: getProjectById, getProjectMemberFilters, the
\* assignment of request.project, up to the await of findAllProjectMembers
AG_ProjectReturn ==
    /\ guard = AG
    /\ pc = "project"
    /\ \E answer \in ProjectAnswers(headers.projectId) :
        IF getProjectById(answer) # NoError
        THEN \* caught in validateProject, then in canActivate
             /\ Deny(AG_handleError(AG_handleError(getProjectById(answer))))
             /\ project' = answer
             /\ UNCHANGED <<calls, pmFilter, requestProject>>
        ELSE /\ project' = answer
             /\ pmFilter' = getProjectMemberFilters(meta.FetchDeletedRecordsLevel,
                                meta.FetchDeletedRecords, query)
             /\ requestProject' = AttachedProject(answer)
             /\ Issue("projectMember")
             /\ pc' = "projectMember"
             /\ UNCHANGED <<result, error>>
    /\ UNCHANGED serviceVars
    /\ UNCHANGED <<guard, headers, query, meta, orgFilter, envFilter,
                   organizationMembers, projectMember, environment,
                   isUnAuthorized, envPromise, sfPromise>>

\* validateSalesforceType: an async function, so its exception (rethrown by
\* its own handleError) rejects the promise it returns
validateSalesforceType(proj, member, disableFeatureForSalesforceType) ==
    IF ProjectSalesforceDenied(proj, member, disableFeatureForSalesforceType)
    THEN "rejected"
    ELSE "fulfilled"

\* variant: the flag is never cleared
AG_isUnAuthorizedAfter_NotCleared(flag, projectAccessRole, members, member) ==
    flag

\* the flag after the project-role branch: cleared when the branch passes
AG_isUnAuthorizedAfter(flag, projectAccessRole, members, member) ==
    IF /\ ProjectRoleChecked(projectAccessRole, members)
       /\ member.totalCount > 0
       /\ ProjectRoleSufficient(projectAccessRole, member)
    THEN FALSE
    ELSE flag

\* variant: the pending flag is not looked at after the project-role branch
AG_ProjectCheck_FlagIgnored(flag, projectAccessRole, members, member) ==
    ProjectRoleCheck(projectAccessRole, members, member)

\* the exception validateProject raises after findAllProjectMembers, or NoError.
\* The promise of validateSalesforceType is not awaited: it decides nothing here.
AG_ProjectCheck(flag, projectAccessRole, members, member) ==
    IF ProjectRoleCheck(projectAccessRole, members, member) # NoError
    THEN ProjectRoleCheck(projectAccessRole, members, member)
    ELSE IF AG_isUnAuthorizedAfter(flag, projectAccessRole, members, member)
         THEN UnauthorizedException("InsufficientRole", "organizationRole")
         ELSE NoError

\* findAllProjectMembers returns: the rest of validateProject and of canActivate
AG_ProjectMembersReturn ==
    /\ guard = AG
    /\ pc = "projectMember"
    /\ \E answer \in ProjectMemberAnswers :
        IF answer.throws
        THEN /\ Deny(AG_handleError(AG_handleError(LookupError("projectMember"))))
             /\ projectMember' = answer
             /\ UNCHANGED <<sfPromise, isUnAuthorized>>
        ELSE /\ projectMember' = answer
             /\ sfPromise' = validateSalesforceType(project, answer,
                                meta.DisableFeatureForSalesforceType)
             /\ isUnAuthorized' = AG_isUnAuthorizedAfter(isUnAuthorized,
                                meta.projectAccessRole, organizationMembers, answer)
             /\ LET e == AG_ProjectCheck(isUnAuthorized, meta.projectAccessRole,
                                         organizationMembers, answer)
                IN IF e # NoError
                   THEN Deny(AG_handleError(AG_handleError(e)))
                   ELSE Allow
    /\ UNCHANGED serviceVars
    /\ UNCHANGED <<guard, headers, query, meta, calls, orgFilter, pmFilter,
                   envFilter, organizationMembers, project, environment,
                   requestProject, envPromise>>

-----------------------------------------------------------------------------
(* EnvironmentAndAuthorizationValidatorV1Guard *)

\* variant: the identifier is only required to be present
validateOrganizationId_PresenceOnly(organizationId) ==
    IF ~Truthy(organizationId)
    THEN BadRequestException("InvalidIdentifierFormat", "organizationId")
    ELSE NoError

\* validateOrganizationId: the exception it raises, or NoError
validateOrganizationId(organizationId) ==
    IF ~Truthy(organizationId) \/ ~validate(organizationId)
    THEN BadRequestException("InvalidIdentifierFormat", "organizationId")
    ELSE NoError

\* variant: the test of the project identifier is inverted
SkipProjectValidation_Inverted(isProjectValidationOptional, projectId) ==
    isProjectValidationOptional = "true" /\ Truthy(projectId)

\* isProjectValidationOptional === true && !projectId
SkipProjectValidation(isProjectValidationOptional, projectId) ==
    isProjectValidationOptional = "true" /\ ~Truthy(projectId)

\* the synchronous part of the un-awaited validateEnvironmentId call: a bad
\* identifier rejects the promise, otherwise findEnvironmentId is issued
EG_validateEnvironmentIdCall ==
    IF ~Truthy(headers.environmentId) \/ ~validate(headers.environmentId)
    THEN /\ envPromise' = "rejected"
         /\ calls' = Append(calls, "organizationMember")
    ELSE /\ envPromise' = "pending"
         /\ calls' = calls \o <<"environment", "organizationMember">>

\* canActivate up to the await of findAllOrganizationMembers
EG_canActivate ==
    /\ guard = EG
    /\ pc = "start"
    /\ IF validateOrganizationId(headers.organizationId) # NoError
       THEN \* caught in validateOrganizationId, then in canActivate
            /\ Deny(EG_handleError(EG_handleError(
                        validateOrganizationId(headers.organizationId))))
            /\ UNCHANGED <<calls, orgFilter, envPromise>>
       ELSE IF Truthy(headers.projectId) /\ ~validate(headers.projectId)
       THEN /\ Deny(EG_handleError(
                        BadRequestException("InvalidIdentifierFormat", "projectId")))
            /\ UNCHANGED <<calls, orgFilter, envPromise>>
       ELSE IF SkipProjectValidation(meta.isProjectValidationOptional,
                                     headers.projectId)
       THEN /\ Allow
            /\ UNCHANGED <<calls, orgFilter, envPromise>>
       ELSE IF ~Truthy(headers.projectId)
       THEN /\ Deny(EG_handleError(
                        Raise("GuardValidationFailedException", "MissingProject",
                              "projectId")))
            /\ UNCHANGED <<calls, orgFilter, envPromise>>
       ELSE /\ EG_validateEnvironmentIdCall
            /\ orgFilter' = OrganizationDeletedStatus(meta.FetchDeletedRecordsLevel,
                                meta.FetchDeletedRecords, query)
            /\ pc' = "organizationMember"
            /\ UNCHANGED <<result, error>>
    /\ UNCHANGED serviceVars
    /\ UNCHANGED <<guard, headers, query, meta, pmFilter, envFilter,
                   organizationMembers, project, projectMember, environment,
                   requestProject, isUnAuthorized, sfPromise>>

\* findEnvironmentId returns: the rest of validateEnvironmentId.  Whatever it
\* throws is rethrown by its handleError and rejects the un-awaited promise.
EG_EnvironmentReturn ==
    /\ guard = EG
    /\ envPromise = "pending"
    /\ \E answer \in EnvironmentAnswers :
        /\ environment' = answer
        /\ IF answer = "found"
           THEN /\ envFilter' = EnvironmentDeletedStatus(
                                    meta.FetchDeletedRecordsLevel,
                                    meta.FetchDeletedRecords, query)
                /\ envPromise' = "fulfilled"
           ELSE /\ envPromise' = "rejected"
                /\ UNCHANGED envFilter
    /\ UNCHANGED serviceVars
    /\ UNCHANGED <<guard, headers, query, meta, pc, calls, orgFilter, pmFilter,
                   organizationMembers, project, projectMember, requestProject,
                   isUnAuthorized, sfPromise, result, error>>

\* variant: any non-empty answer counts as a membership
EG_OrganizationCheck_AtLeastOne(members) ==
    IF members.totalCount >= 1
    THEN IF OrganizationSalesforceDenied(members, meta.DisableFeatureForSalesforceType)
         THEN UnauthorizedException("TenantFeatureDisabled", "organization")
         ELSE NoError
    ELSE BadRequestException("NotOrganizationMember", "organization")

\* the exception validateOrganizationMembers raises on the answer, or NoError
EG_OrganizationCheck(members) ==
    IF members.totalCount = 1
    THEN IF OrganizationSalesforceDenied(members, meta.DisableFeatureForSalesforceType)
         THEN UnauthorizedException("TenantFeatureDisabled", "organization")
         ELSE NoError
    ELSE BadRequestException("NotOrganizationMember", "organization")

\* findAllOrganizationMembers returns: the rest of validateOrganizationMembers
\* and validateProject up to the await of findProjectById
EG_OrganizationMembersReturn ==
    /\ guard = EG
    /\ pc = "organizationMember"
    /\ \E answer \in OrganizationMemberAnswers :
        IF answer.throws
        THEN /\ Deny(EG_handleError(EG_handleError(LookupError("organizationMember"))))
             /\ organizationMembers' = answer
             /\ UNCHANGED calls
        ELSE /\ organizationMembers' = answer
             /\ IF EG_OrganizationCheck(answer) # NoError
                THEN \* caught in validateOrganizationMembers, then in canActivate
                     /\ Deny(EG_handleError(EG_handleError(EG_OrganizationCheck(answer))))
                     /\ UNCHANGED calls
                ELSE /\ Issue("project")
                     /\ pc' = "project"
                     /\ UNCHANGED <<result, error>>
    /\ UNCHANGED serviceVars
    /\ UNCHANGED <<guard, headers, query, meta, orgFilter, pmFilter, envFilter,
                   project, projectMember, environment, requestProject,
                   isUnAuthorized, envPromise, sfPromise>>

\* findProjectById returns: getProjectById, getProjectMemberFilters, the
\* assignment of request.project, up to the await of findAllProjectMembers
EG_ProjectReturn ==
    /\ guard = EG
    /\ pc = "project"
    /\ \E answer \in ProjectAnswers(headers.projectId) :
        IF getProjectById(answer) # NoError
        THEN \* caught in validateProject, then in canActivate
             /\ Deny(EG_handleError(EG_handleError(getProjectById(answer))))
             /\ project' = answer
             /\ UNCHANGED <<calls, pmFilter, requestProject>>
        ELSE /\ project' = answer
             /\ pmFilter' = getProjectMemberFilters(meta.FetchDeletedRecordsLevel,
                                meta.FetchDeletedRecords, query)
             /\ requestProject' = AttachedProject(answer)
             /\ Issue("projectMember")
             /\ pc' = "projectMember"
             /\ UNCHANGED <<result, error>>
    /\ UNCHANGED serviceVars
    /\ UNCHANGED <<guard, headers, query, meta, orgFilter, envFilter,
                   organizationMembers, projectMember, environment,
                   isUnAuthorized, envPromise, sfPromise>>

\* variant: the environment check is taken into account when its promise has
\* already settled by the time the project membership arrives
EG_ProjectCheck_EnvironmentIfSettled(proj, projectAccessRole, members, member) ==
    IF envPromise = "rejected"
    THEN UnauthorizedException("ResourceNotFound", "environment")
    ELSE IF ProjectSalesforceDenied(proj, member, meta.DisableFeatureForSalesforceType)
    THEN UnauthorizedException("TenantFeatureDisabled", "project")
    ELSE ProjectRoleCheck(projectAccessRole, members, member)

\* the exception validateProject raises after findAllProjectMembers, or NoError
EG_ProjectCheck(proj, projectAccessRole, members, member) ==
    IF ProjectSalesforceDenied(proj, member, meta.DisableFeatureForSalesforceType)
    THEN UnauthorizedException("TenantFeatureDisabled", "project")
    ELSE ProjectRoleCheck(projectAccessRole, members, member)

\* findAllProjectMembers returns: the rest of validateProject and of canActivate
EG_ProjectMembersReturn ==
    /\ guard = EG
    /\ pc = "projectMember"
    /\ \E answer \in ProjectMemberAnswers :
        IF answer.throws
        THEN /\ Deny(EG_handleError(EG_handleError(LookupError("projectMember"))))
             /\ projectMember' = answer
        ELSE /\ projectMember' = answer
             /\ LET e == EG_ProjectCheck(project, meta.projectAccessRole,
                                         organizationMembers, answer)
                IN IF e # NoError
                   THEN Deny(EG_handleError(EG_handleError(e)))
                   ELSE Allow
    /\ UNCHANGED serviceVars
    /\ UNCHANGED <<guard, headers, query, meta, calls, orgFilter, pmFilter,
                   envFilter, organizationMembers, project, environment,
                   requestProject, isUnAuthorized, envPromise, sfPromise>>

-----------------------------------------------------------------------------

Next ==
    \/ AG_canActivate
    \/ AG_OrganizationMembersReturn
    \/ AG_ProjectReturn
    \/ AG_ProjectMembersReturn
    \/ EG_canActivate
    \/ EG_EnvironmentReturn
    \/ EG_OrganizationMembersReturn
    \/ EG_ProjectReturn
    \/ EG_ProjectMembersReturn

Spec == Init /\ [][Next]_vars

TypeOK ==
    /\ guard \in {AG, EG}
    /\ pc \in {"start", "organizationMember", "project", "projectMember", "done"}
    /\ result \in {"running", "allow", "deny"}
    /\ (pc = "done") = (result # "running")
    /\ envPromise \in {"none", "pending", "fulfilled", "rejected"}
    /\ sfPromise \in {"none", "fulfilled", "rejected"}
    /\ isUnAuthorized \in BOOLEAN

-----------------------------------------------------------------------------
(* ExceptionGroupManagementService.logAnExceptionGroup                       *)
(* One behaviour of SpecLog is a number of concurrent calls with             *)
(* isNewRecord = true for logs of one exception type and one environment.    *)
(* A row of the exception group table is [id, environmentId, exceptionCount] *)
(* (the exception type is the same for all rows and left out).               *)

\* no guard handles a request
GuardIdle ==
    /\ guard = "none"
    /\ headers = [organizationId |-> "absent", projectId |-> "absent",
                  environmentId |-> "absent"]
    /\ query = "undefined"
    /\ meta = [accessRole |-> "undefined", projectAccessRole |-> "undefined",
               FetchDeletedRecords |-> "undefined",
               FetchDeletedRecordsLevel |-> "undefined",
               DisableFeatureForSalesforceType |-> "undefined",
               isProjectValidationOptional |-> "undefined"]
    /\ pc = "idle"
    /\ calls = <<>>
    /\ orgFilter = "unset"
    /\ pmFilter = "unset"
    /\ envFilter = "unset"
    /\ organizationMembers = NoAnswer
    /\ project = NoProject
    /\ projectMember = NoAnswer
    /\ environment = "none"
    /\ requestProject = NoProject
    /\ isUnAuthorized = FALSE
    /\ envPromise = "none"
    /\ sfPromise = "none"
    /\ result = "running"
    /\ error = NoError

\* the value undefined where an ExceptionGroup is expected
Undefined == [id |-> 0, environmentId |-> 0, exceptionCount |-> 0]

GroupsOf(groups, environmentId) == {g \in groups : g.environmentId = environmentId}

\* repository.findExceptionGroupByTypeAndEnvironment: rejects, or answers a row
\* of that type and environment, undefined when there is none
FindExceptionGroupAnswers(groups, environmentId) ==
    { [throws |-> TRUE, group |-> Undefined] }
    \cup { [throws |-> FALSE, group |-> g] :
             g \in (IF GroupsOf(groups, environmentId) = {}
                    THEN {Undefined}
                    ELSE GroupsOf(groups, environmentId)) }

\* existingGroupedException: the .catch of the lookup only logs, so a rejected
\* lookup leaves undefined
ExistingGroupedException(answer) ==
    IF answer.throws THEN Undefined ELSE answer.group

\* the id the table gives a row inserted without one (rows are never deleted
\* here, so the ids in use are 1..Cardinality(groups))
NewId(groups) == Cardinality(groups) + 1

\* the entity logAnExceptionGroup hands to the repository when isNewRecord is
\* true: the fetched row with its count plus one, or a new row with count 1
LoggedExceptionGroup(existing, environmentId, newId) ==
    IF existing # Undefined
    THEN [existing EXCEPT !.exceptionCount = @ + 1]
    ELSE [id |-> newId, environmentId |-> environmentId, exceptionCount |-> 1]

\* repository.logAnExceptionGroup: saves the entity, replacing the row of its id
SaveExceptionGroup(groups, entity) ==
    {g \in groups : g.id # entity.id} \cup {entity}

InitLog ==
    /\ GuardIdle
    /\ exceptionGroups \in
          { {}, {[id |-> 1, environmentId |-> 1, exceptionCount |-> 1]} }
    /\ groupsAtStart = exceptionGroups
    /\ \E n \in 1..MaxCalls :
          logCalls = [c \in 1..n |->
                        [pc |-> "start", environmentId |-> 1, existing |-> Undefined]]
    /\ exceptionLogs = <<>>
    /\ groupedLogs = <<>>
    /\ mapPc = "idle"
    /\ environmentIndex = 0
    /\ stopFlag = FALSE
    /\ skip = 0
    /\ mapResult = "none"

\* a call of logAnExceptionGroup up to the await of the find-existing lookup
logAnExceptionGroup ==
    /\ \E c \in DOMAIN logCalls :
          /\ logCalls[c].pc = "start"
          /\ logCalls' = [logCalls EXCEPT ![c].pc = "find"]
    /\ UNCHANGED <<exceptionGroups, groupsAtStart, exceptionLogs, groupedLogs,
                   mapPc, environmentIndex, stopFlag, skip, mapResult>>
    /\ UNCHANGED guardVars

\* the find-existing lookup of a call returns; the count is changed on the
\* fetched object, up to the await of the save
logAnExceptionGroup_FindReturn ==
    /\ \E c \in DOMAIN logCalls :
          /\ logCalls[c].pc = "find"
          /\ \E answer \in FindExceptionGroupAnswers(exceptionGroups,
                                                      logCalls[c].environmentId) :
                logCalls' = [logCalls EXCEPT
                                ![c].pc = "save",
                                ![c].existing = ExistingGroupedException(answer)]
    /\ UNCHANGED <<exceptionGroups, groupsAtStart, exceptionLogs, groupedLogs,
                   mapPc, environmentIndex, stopFlag, skip, mapResult>>
    /\ UNCHANGED guardVars

\* the save of a call returns: the call returns the saved group
logAnExceptionGroup_SaveReturn ==
    /\ \E c \in DOMAIN logCalls :
          /\ logCalls[c].pc = "save"
          /\ exceptionGroups' =
                SaveExceptionGroup(exceptionGroups,
                    LoggedExceptionGroup(logCalls[c].existing,
                                         logCalls[c].environmentId,
                                         NewId(exceptionGroups)))
          /\ logCalls' = [logCalls EXCEPT ![c].pc = "done"]
    /\ UNCHANGED <<groupsAtStart, exceptionLogs, groupedLogs,
                   mapPc, environmentIndex, stopFlag, skip, mapResult>>
    /\ UNCHANGED guardVars

NextLog ==
    \/ logAnExceptionGroup
    \/ logAnExceptionGroup_FindReturn
    \/ logAnExceptionGroup_SaveReturn

SpecLog == InitLog /\ [][NextLog]_vars

-----------------------------------------------------------------------------
(* ExceptionGroupManagementService.mapRecordsToExceptionGroupTable           *)
(* One behaviour of SpecMap is one call; nothing else runs beside it and     *)
(* every repository call returns.  The environments are numbered from 1;     *)
(* exceptionLogs[e] is the number of exception logs of environment e (total) *)
(* and how many of them, the first in the order of the pages, have no        *)
(* exception group id yet (ungrouped).                                       *)

\* const take = 500
take == 500

\* the numbers of logs an environment may hold: none, one, full pages, and
\* one log more than full pages
LogCounts ==
    {0, 1} \cup {p * take : p \in 1..MaxPages} \cup {MaxPages * take + 1}

\* allExceptionLogs.data.length: findExceptionLogs answers with at most taken
\* logs of the environment after the first skipped ones
PageLength(total, skipped, taken) ==
    IF total <= skipped THEN 0
    ELSE IF total - skipped < taken THEN total - skipped
    ELSE taken

\* variant: the next page starts where this one started
NextSkip_Unchanged(skipped) == skipped

\* skip = skip + 500
NextSkip(skipped) == skipped + 500

RECURSIVE GroupLogs(_, _, _)
\* the for loop over the page: for each of the k logs without a group id,
\* logAnExceptionGroup(exceptionLog, true) is awaited; its lookup and its save
\* return, and no other call runs between them
GroupLogs(groups, environmentId, k) ==
    IF k = 0 THEN groups
    ELSE LET answer == CHOOSE a \in FindExceptionGroupAnswers(groups, environmentId) :
                           ~a.throws
         IN GroupLogs(SaveExceptionGroup(groups,
                          LoggedExceptionGroup(ExistingGroupedException(answer),
                                               environmentId, NewId(groups))),
                      environmentId, k - 1)

InitMap ==
    /\ GuardIdle
    /\ exceptionGroups \in
          { {}, {[id |-> 1, environmentId |-> 1, exceptionCount |-> 1]} }
    /\ groupsAtStart = exceptionGroups
    /\ logCalls = <<>>
    /\ \E e \in 0..MaxEnvironments :
          /\ exceptionLogs \in [1..e -> [total : LogCounts, ungrouped : 0..MaxUngrouped]]
          /\ \A i \in 1..e : exceptionLogs[i].ungrouped \in
                                 {0, PageLength(exceptionLogs[i].total, 0, MaxUngrouped)}
          /\ groupedLogs = [i \in 1..e |-> 0]
    /\ mapPc = "start"
    /\ environmentIndex = 0
    /\ stopFlag = FALSE
    /\ skip = 0
    /\ mapResult = "none"

\* mapRecordsToExceptionGroupTable up to the await of findAllEnvironments
mapRecordsToExceptionGroupTable ==
    /\ mapPc = "start"
    /\ mapPc' = "findAllEnvironments"
    /\ UNCHANGED <<exceptionGroups, groupsAtStart, logCalls, exceptionLogs,
                   groupedLogs, environmentIndex, stopFlag, skip, mapResult>>
    /\ UNCHANGED guardVars

\* the for-of loop takes the next environment and the paging loop asks for its
\* first page, or the loop is over and the success message is returned
mapRecords_NextEnvironment ==
    /\ mapPc \in {"findAllEnvironments", "nextEnvironment"}
    /\ IF environmentIndex < Len(exceptionLogs)
       THEN /\ environmentIndex' = environmentIndex + 1
            /\ stopFlag' = FALSE
            /\ skip' = 0
            /\ mapPc' = "findExceptionLogs"
            /\ UNCHANGED mapResult
       ELSE /\ mapPc' = "done"
            /\ mapResult' = "Mapped Records Successfully"
            /\ UNCHANGED <<environmentIndex, stopFlag, skip>>
    /\ UNCHANGED <<exceptionGroups, groupsAtStart, logCalls, exceptionLogs,
                   groupedLogs>>
    /\ UNCHANGED guardVars

\* findExceptionLogs returns a page: every log of it without a group id is
\* grouped and gets the id of its group; an empty page sets stopFlag, another
\* one moves skip
mapRecords_ExceptionLogsReturn ==
    /\ mapPc = "findExceptionLogs"
    /\ LET length == PageLength(exceptionLogs[environmentIndex].total, skip, take)
           k == PageLength(exceptionLogs[environmentIndex].ungrouped, skip, take)
       IN /\ exceptionGroups' = GroupLogs(exceptionGroups, environmentIndex, k)
          /\ groupedLogs' = [groupedLogs EXCEPT ![environmentIndex] = @ + k]
          /\ IF length = 0
             THEN /\ stopFlag' = TRUE
                  /\ mapPc' = "nextEnvironment"
                  /\ UNCHANGED skip
             ELSE /\ skip' = NextSkip(skip)
                  /\ UNCHANGED <<stopFlag, mapPc>>
    /\ UNCHANGED <<groupsAtStart, logCalls, exceptionLogs, environmentIndex,
                   mapResult>>
    /\ UNCHANGED guardVars

NextMap ==
    \/ mapRecordsToExceptionGroupTable
    \/ mapRecords_NextEnvironment
    \/ mapRecords_ExceptionLogsReturn

\* an awaited repository call that returns resumes the operation
SpecMap == InitMap /\ [][NextMap]_vars /\ WF_vars(NextMap)

-----------------------------------------------------------------------------
(* Properties *)

\* the organization-membership lookup answered with exactly one record
OneOrganizationMember == organizationMembers.totalCount = 1

\* C1: in both guards, for a caller whose single organization membership is
\* Owner, a declared projectAccessRole and a project-membership lookup that
\* answers zero records, the project-role branch raises nothing (neither
\* NotProjectMember nor InsufficientRole); the environment guard allows.
C1_OwnerBypass ==
    ( /\ pc = "done"
      /\ OneOrganizationMember
      /\ organizationMembers.role = "OWNER"
      /\ Truthy(meta.projectAccessRole)
      /\ projectMember.totalCount = 0 )
    => /\ error.site # "projectRole"
       /\ error.kind # "NotProjectMember"
       /\ guard = EG => result = "allow"

C1_Witness ==
    /\ guard = EG
    /\ result = "allow"
    /\ organizationMembers.role = "OWNER"
    /\ Truthy(meta.projectAccessRole)
    /\ projectMember.totalCount = 0

\* C2: in both guards, an organization-membership lookup that answers a
\* totalCount other than 1 makes canActivate deny with NotOrganizationMember,
\* whatever roles are declared and whatever the project header is.
C2_NotOrganizationMember ==
    ( /\ organizationMembers.totalCount >= 0
      /\ organizationMembers.totalCount # 1 )
    => /\ result = "deny"
       /\ error.cls = "GuardValidationFailedException"
       /\ error.kind = "NotOrganizationMember"

C2_Witness ==
    /\ guard = EG
    /\ organizationMembers.totalCount > 1
    /\ organizationMembers.role = "OWNER"
    /\ result = "deny"

\* C3: in both guards, one organization membership of a SALESFORCE_ONLY
\* organization with DisableFeatureForSalesforceType set makes canActivate deny
\* with TenantFeatureDisabled, for every member role and declared role.
C3_OrganizationTenantGate ==
    ( /\ OneOrganizationMember
      /\ organizationMembers.type = "SALESFORCE_ONLY"
      /\ Truthy(meta.DisableFeatureForSalesforceType) )
    => /\ result = "deny"
       /\ error.kind = "TenantFeatureDisabled"
       /\ error.site = "organization"

C3_Witness ==
    /\ guard = AG
    /\ OneOrganizationMember
    /\ organizationMembers.type = "SALESFORCE_ONLY"
    /\ organizationMembers.role = "OWNER"
    /\ meta.accessRole = "OWNER"
    /\ Truthy(meta.DisableFeatureForSalesforceType)
    /\ result = "deny"

\* the project-role rule: Manager, or Member when the declared role is Member
C4_RuleHolds ==
    \/ projectMember.role = "MANAGER"
    \/ projectMember.role = "MEMBER" /\ meta.projectAccessRole = "MEMBER"

\* the caller is not an organization Owner, a project role is declared and the
\* project-membership lookup answered at least one record
C4_Case ==
    /\ pc = "done"
    /\ OneOrganizationMember
    /\ organizationMembers.role # "OWNER"
    /\ Truthy(meta.projectAccessRole)
    /\ projectMember.totalCount > 0

\* the environment guard's project tenant gate fires (it is evaluated before
\* the project-role branch)
C4_EnvironmentGuardGate ==
    /\ guard = EG
    /\ ProjectSalesforceDenied(project, projectMember,
                               meta.DisableFeatureForSalesforceType)

\* C4 as stated: for a non-Owner caller with a declared project role and at
\* least one project membership, the request is allowed when the project-role
\* rule holds and denied with InsufficientRole in every other case.
C4_ProjectRoleRule_Original ==
    C4_Case =>
        IF C4_RuleHolds
        THEN result = "allow"
        ELSE result = "deny" /\ error.kind = "InsufficientRole"

\* C4 (amended): the same, except where the environment guard's project tenant
\* gate fires first; there the denial is TenantFeatureDisabled.
C4_ProjectRoleRule ==
    C4_Case =>
        IF C4_EnvironmentGuardGate
        THEN result = "deny" /\ error.kind = "TenantFeatureDisabled"
        ELSE IF C4_RuleHolds
             THEN result = "allow"
             ELSE /\ result = "deny"
                  /\ error.kind = "InsufficientRole"
                  /\ error.site = "projectRole"

C4_Witness ==
    /\ C4_Case
    /\ organizationMembers.role = "MEMBER"
    /\ projectMember.role = "MEMBER"
    /\ meta.projectAccessRole = "MANAGER"
    /\ ~C4_EnvironmentGuardGate
    /\ result = "deny"
    /\ error.kind = "InsufficientRole"

\* C5: in the environment guard, when findEnvironmentId reports that the
\* environment does not exist, canActivate does not return allow.
C5_EnvironmentNotFoundDenied ==
    ( guard = EG /\ environment = "notFound" ) => result # "allow"

\* the environment guard reached validateEnvironmentId with an environment
\* identifier that is absent or not a uuid
C6_Case ==
    /\ guard = EG
    /\ validate(headers.organizationId)
    /\ validate(headers.projectId)
    /\ ~validate(headers.environmentId)

\* C6: in the environment guard, a supplied project identifier with an absent
\* or malformed environment identifier is denied with InvalidIdentifierFormat
\* and no lookup is issued.
C6_EnvironmentIdFailFast ==
    C6_Case =>
        /\ calls = <<>>
        /\ pc # "start" => /\ result = "deny"
                           /\ error.kind = "InvalidIdentifierFormat"

\* C7: in the environment guard, an absent or malformed organization
\* identifier, or a malformed project identifier, is denied with
\* InvalidIdentifierFormat before any lookup is issued.
C7_IdentifierFailFast ==
    ( /\ guard = EG
      /\ \/ ~validate(headers.organizationId)
         \/ headers.projectId = "malformed" )
    => /\ calls = <<>>
       /\ envPromise = "none"
       /\ pc # "start" => /\ result = "deny"
                          /\ error.cls = "GuardValidationFailedException"
                          /\ error.kind = "InvalidIdentifierFormat"

C7_Witness ==
    /\ guard = EG
    /\ headers.organizationId = "malformed"
    /\ headers.projectId = "valid"
    /\ result = "deny"
    /\ error.kind = "InvalidIdentifierFormat"

\* C8: in the environment guard, a well-formed organization identifier,
\* isProjectValidationOptional = true and no project identifier give allow,
\* and no environment, organization-membership, project or project-membership
\* lookup is issued, whatever the other inputs are.
C8_OptionalProjectShortCircuit ==
    ( /\ guard = EG
      /\ validate(headers.organizationId)
      /\ meta.isProjectValidationOptional = "true"
      /\ headers.projectId = "absent" )
    => /\ calls = <<>>
       /\ envPromise = "none"
       /\ pc # "start" => result = "allow"

C8_Witness ==
    /\ guard = EG
    /\ meta.isProjectValidationOptional = "true"
    /\ headers.projectId = "absent"
    /\ headers.environmentId = "malformed"
    /\ result = "allow"
    /\ calls = <<>>

\* C9: in both guards, one project membership, a SALESFORCE_ONLY project and
\* DisableFeatureForSalesforceType set never end in allow.
C9_ProjectTenantGate ==
    ProjectSalesforceDenied(project, projectMember,
                            meta.DisableFeatureForSalesforceType)
    => result # "allow"

\* the organization role bit of the caller does not intersect accessRole
C10_OrganizationRoleFailed ==
    /\ guard = AG
    /\ OneOrganizationMember
    /\ ~OrganizationSalesforceDenied(organizationMembers,
                                     meta.DisableFeatureForSalesforceType)
    /\ BitAnd(AuthorizationUserRole(organizationMembers.role),
              MethodAccessRole(meta.accessRole)) = 0

\* C10: in AuthorizationGuard an organization role outside accessRole does not
\* deny at the organization stage (the project lookup is issued); when a
\* projectAccessRole is declared, the caller is not Owner and the project role
\* satisfies the project-role rule, the flag is cleared and the request allowed.
C10_DeferredOrganizationRole ==
    C10_OrganizationRoleFailed =>
        /\ headers.projectId # "absent" => /\ Len(calls) >= 2
                                           /\ calls[2] = "project"
                                           /\ error.site # "organization"
        /\ ( /\ pc = "done"
             /\ Truthy(meta.projectAccessRole)
             /\ organizationMembers.role # "OWNER"
             /\ projectMember.totalCount > 0
             /\ C4_RuleHolds )
           => /\ result = "allow"
              /\ isUnAuthorized = FALSE

C10_Witness ==
    /\ C10_OrganizationRoleFailed
    /\ meta.accessRole = "OWNER"
    /\ organizationMembers.role = "MEMBER"
    /\ meta.projectAccessRole = "MANAGER"
    /\ projectMember.role = "MANAGER"
    /\ result = "allow"
    /\ isUnAuthorized = FALSE

\* the organization stage of AuthorizationGuard left the flag set, no project
\* role is declared and the project-membership lookup answered
C11_Case ==
    /\ C10_OrganizationRoleFailed
    /\ ~Truthy(meta.projectAccessRole)
    /\ projectMember.totalCount >= 0

\* C11: in AuthorizationGuard, when the organization-role check failed and no
\* projectAccessRole is declared, the request is denied with InsufficientRole
\* whatever project membership the lookup answers (none, one or several, of
\* any role); such a request is never allowed.
C11_PendingFlagDenies ==
    /\ C11_Case => /\ result = "deny"
                   /\ error.kind = "InsufficientRole"
                   /\ error.site = "organizationRole"
                   /\ isUnAuthorized
    /\ ( C10_OrganizationRoleFailed /\ ~Truthy(meta.projectAccessRole) )
       => result # "allow"

C11_Witness ==
    /\ C11_Case
    /\ meta.accessRole = "OWNER"
    /\ organizationMembers.role = "MANAGER"
    /\ projectMember.totalCount = 1
    /\ projectMember.role = "MANAGER"
    /\ result = "deny"

\* C12: in AuthorizationGuard, for an operation that declares no accessRole, a
\* caller with exactly one organization membership never has the
\* insufficient-organization-role flag set and is never denied with
\* InsufficientRole on account of the organization role.
C12_AbsentMaskNotEvaluated ==
    ( /\ guard = AG
      /\ meta.accessRole = "undefined"
      /\ OneOrganizationMember )
    => /\ ~isUnAuthorized
       /\ error.site # "organizationRole"

C14_FlagCleared ==
    /\ Truthy(meta.projectAccessRole)
    /\ organizationMembers.role # "OWNER"
    /\ projectMember.totalCount > 0
    /\ C4_RuleHolds

\* the role bit ANDed with the mask is zero, the project-membership lookup
\* answered and the flag was not cleared
C14_Case ==
    /\ pc = "done"
    /\ C10_OrganizationRoleFailed
    /\ projectMember.totalCount >= 0
    /\ ~C14_FlagCleared

\* after the organization stage the flag is set if and only if the bitwise AND
\* of the role bit and the mask is zero
C14_FlagIffNoCommonBit ==
    ( guard = AG /\ pc \in {"project", "projectMember"} )
    => ( isUnAuthorized <=>
            BitAnd(AuthorizationUserRole(organizationMembers.role),
                   MethodAccessRole(meta.accessRole)) = 0 )

\* C14 as stated: in AuthorizationGuard any caller whose role bit ANDed with
\* accessRole is zero and whose flag is not cleared by a successful non-Owner
\* project-role check is denied with InsufficientRole; the organization
\* requirement is satisfied iff the AND is non-zero.
C14_NoEscalation_Original ==
    /\ C14_FlagIffNoCommonBit
    /\ C14_Case => /\ result = "deny"
                   /\ error.kind = "InsufficientRole"

\* C14 (amended): the same, except that a non-Owner caller with a declared
\* project role and no project membership is denied with NotProjectMember.
C14_NoEscalation ==
    /\ C14_FlagIffNoCommonBit
    /\ C14_Case =>
        /\ result = "deny"
        /\ IF /\ Truthy(meta.projectAccessRole)
              /\ organizationMembers.role # "OWNER"
              /\ projectMember.totalCount = 0
           THEN error.kind = "NotProjectMember"
           ELSE error.kind = "InsufficientRole"

C14_Witness ==
    /\ C14_Case
    /\ meta.accessRole = "OWNER"
    /\ organizationMembers.role = "MANAGER"
    /\ meta.projectAccessRole = "MANAGER"
    /\ projectMember.totalCount = 1
    /\ projectMember.role = "MEMBER"
    /\ result = "deny"
    /\ error.kind = "InsufficientRole"

\* C15: in both guards, with a declared project role, a caller who is not an
\* organization Owner and a project-membership lookup that answers zero
\* records, the request is denied with NotProjectMember.
C15_NotProjectMember ==
    ( /\ OneOrganizationMember
      /\ organizationMembers.role # "OWNER"
      /\ Truthy(meta.projectAccessRole)
      /\ projectMember.totalCount = 0 )
    => /\ result = "deny"
       /\ error.cls = "GuardValidationFailedException"
       /\ error.kind = "NotProjectMember"

C15_Witness ==
    /\ guard = EG
    /\ organizationMembers.role = "MANAGER"
    /\ meta.projectAccessRole = "MEMBER"
    /\ project.type = "SALESFORCE_ONLY"
    /\ Truthy(meta.DisableFeatureForSalesforceType)
    /\ projectMember.totalCount = 0
    /\ result = "deny"
    /\ error.kind = "NotProjectMember"

\* C16: in both guards, when the project lookup by id fails the request is
\* denied with ResourceNotFound; the project-membership lookup is not issued
\* and neither the project tenant gate nor the project-role branch is evaluated.
C16_ProjectNotFound ==
    project.throws
    => /\ result = "deny"
       /\ error.cls = "GuardValidationFailedException"
       /\ error.kind = "ResourceNotFound"
       /\ \A i \in 1..Len(calls) : calls[i] # "projectMember"
       /\ pmFilter = "unset"
       /\ projectMember = NoAnswer
       /\ sfPromise = "none"
       /\ requestProject = NoProject

C16_Witness ==
    /\ guard = AG
    /\ project.throws
    /\ isUnAuthorized
    /\ Truthy(meta.projectAccessRole)
    /\ result = "deny"
    /\ error.kind = "ResourceNotFound"

\* C17: in both guards, every denial caused by TenantFeatureDisabled or
\* InsufficientRole, wherever it is raised, leaves canActivate as the
\* guard-validation-failed error tagged UNAUTHORIZED.
C17_UnauthorizedKeepsTag ==
    ( /\ result = "deny"
      /\ error.kind \in {"TenantFeatureDisabled", "InsufficientRole"} )
    => /\ error.cls = "GuardValidationFailedException"
       /\ error.tag = "UNAUTHORIZED_EXCEPTION"

\* C18: in both guards, a denial caused by InvalidIdentifierFormat,
\* ResourceNotFound, NotOrganizationMember or NotProjectMember is never tagged
\* UNAUTHORIZED.
C18_BadRequestNotUnauthorized ==
    ( /\ result = "deny"
      /\ error.kind \in {"InvalidIdentifierFormat", "ResourceNotFound",
                         "NotOrganizationMember", "NotProjectMember"} )
    => error.tag # "UNAUTHORIZED_EXCEPTION"

\* C19: canActivate of either guard ends either by returning true or by
\* throwing the guard-validation-failed error, whatever step failed; no other
\* error leaves it.
C19_SingleOutcomeShape ==
    /\ result \in {"running", "allow", "deny"}
    /\ pc = "done" =>
        \/ result = "allow" /\ error = NoError
        \/ /\ result = "deny"
           /\ error.cls = "GuardValidationFailedException"
           /\ error.tag \in {"UNAUTHORIZED_EXCEPTION", "default"}
    /\ pc # "done" => result = "running" /\ error = NoError

C19_Witness ==
    /\ guard = EG
    /\ result = "deny"
    /\ error.kind = "LookupFailure"
    /\ error.site = "projectMember"
    /\ error.cls = "GuardValidationFailedException"

\* C20: with FetchDeletedRecords true and FetchDeletedRecordsLevel equal to the
\* tier, the filter handed to the project-membership lookup is ONLY_DELETED,
\* while the filter of the organization-membership lookup and the one resolved
\* for the environment tier are WITH_DELETED, in both guards and for every
\* deleted-status value of the query.
C20_DeletedStatusAsymmetry ==
    meta.FetchDeletedRecords = "true" =>
        /\ ( meta.FetchDeletedRecordsLevel = "PROJECT" /\ pmFilter # "unset" )
           => pmFilter = "ONLY_DELETED"
        /\ ( meta.FetchDeletedRecordsLevel = "ORGANIZATION" /\ orgFilter # "unset" )
           => orgFilter = "WITH_DELETED"
        /\ ( meta.FetchDeletedRecordsLevel = "ENVIRONMENT" /\ envFilter # "unset" )
           => envFilter = "WITH_DELETED"

C20_Witness ==
    /\ guard = AG
    /\ meta.FetchDeletedRecords = "true"
    /\ meta.FetchDeletedRecordsLevel = "PROJECT"
    /\ query = "archived"
    /\ calls = <<"organizationMember", "project", "projectMember">>
    /\ pmFilter = "ONLY_DELETED"
    /\ orgFilter = "NOT_DELETED"

\* the tiers whose filters were built with a deletedStatus other than NOT_DELETED
C21_WidenedTiers ==
    {t \in FetchDeletedRecordsAccessLevel :
        \/ t = "ORGANIZATION" /\ orgFilter \notin {"unset", "NOT_DELETED"}
        \/ t = "PROJECT" /\ pmFilter \notin {"unset", "NOT_DELETED"}
        \/ t = "ENVIRONMENT" /\ envFilter \notin {"unset", "NOT_DELETED"}}

\* C21: in both guards the filters of every tier other than the declared
\* FetchDeletedRecordsLevel (all tiers when none is declared) carry NOT_DELETED,
\* whatever FetchDeletedRecords and the deleted-status override are; so at most
\* one tier of a request gets a filter other than NOT_DELETED.
C21_TierScoping ==
    /\ C21_WidenedTiers \subseteq {meta.FetchDeletedRecordsLevel}
    /\ Cardinality(C21_WidenedTiers) <= 1

C21_Witness ==
    /\ guard = EG
    /\ meta.FetchDeletedRecordsLevel = "PROJECT"
    /\ meta.FetchDeletedRecords = "false"
    /\ query = "archived"
    /\ orgFilter = "NOT_DELETED"
    /\ envFilter = "NOT_DELETED"
    /\ pmFilter = "archived"

\* the deletedStatus the declared tier is specified to get: widened is the
\* value FetchDeletedRecords = true gives at that tier
C22_Expected(widened) ==
    IF Truthy(meta.FetchDeletedRecords) THEN widened
    ELSE IF query # "undefined" THEN query
    ELSE "NOT_DELETED"

\* C22: at the declared FetchDeletedRecordsLevel, with FetchDeletedRecords false
\* or undefined, the filter is the deleted-status override verbatim when one is
\* supplied (whatever its value) and NOT_DELETED when none is; with
\* FetchDeletedRecords true the override is ignored.
C22_OverridePassThrough ==
    /\ (meta.FetchDeletedRecordsLevel = "ORGANIZATION" /\ orgFilter # "unset")
         => orgFilter = C22_Expected("WITH_DELETED")
    /\ (meta.FetchDeletedRecordsLevel = "PROJECT" /\ pmFilter # "unset")
         => pmFilter = C22_Expected("ONLY_DELETED")
    /\ (meta.FetchDeletedRecordsLevel = "ENVIRONMENT" /\ envFilter # "unset")
         => envFilter = C22_Expected("WITH_DELETED")

C22_Witness ==
    /\ guard = AG
    /\ meta.FetchDeletedRecordsLevel = "ORGANIZATION"
    /\ meta.FetchDeletedRecords = "undefined"
    /\ query = "archived"
    /\ orgFilter = "archived"

\* canActivate returned true after running the whole pipeline (not through the
\* optional-project short circuit, which issues no lookup)
FullPipelineAllow == result = "allow" /\ calls # <<>>

\* C23: in both guards, when canActivate returns true through the whole
\* pipeline, request.project is exactly the ProjectDTO the project lookup
\* returned for the project identifier of the request.
C23_ProjectAttachedOnAllow ==
    FullPipelineAllow
    => /\ requestProject = project
       /\ ~project.throws
       /\ project.id = headers.projectId
       /\ project.type \in TypeValues

C23_Witness ==
    /\ guard = AG
    /\ FullPipelineAllow
    /\ requestProject.id = "valid"
    /\ requestProject.type = "SALESFORCE_ONLY"

\* the three pipeline lookups issued so far, in the order they were issued
C24_Lookups == SelectSeq(calls, LAMBDA c : c # "environment")

C24_Issued(lookup) == \E i \in 1..Len(calls) : calls[i] = lookup

\* C24: in both guards the lookups are issued in the order organization
\* membership, project, project membership; the project lookup only after the
\* organization stage passed (one membership, tenant gate not fired), the
\* project-membership lookup only after the project was found; a request denied
\* by the organization stage has issued neither of the two later lookups.
C24_PipelineOrder ==
    /\ \E n \in 0..3 :
          C24_Lookups = SubSeq(<<"organizationMember", "project", "projectMember">>, 1, n)
    /\ C24_Issued("project")
         => /\ OneOrganizationMember
            /\ ~OrganizationSalesforceDenied(organizationMembers,
                                             meta.DisableFeatureForSalesforceType)
    /\ C24_Issued("projectMember")
         => /\ ~project.throws
            /\ project.id = headers.projectId
    /\ (result = "deny" /\ error.site \in {"organization", "organizationMember"})
         => C24_Lookups = <<"organizationMember">>

C24_Witness ==
    /\ guard = AG
    /\ result = "deny"
    /\ error.kind = "TenantFeatureDisabled"
    /\ error.site = "organization"
    /\ calls = <<"organizationMember">>

\* C25: in AuthorizationGuard an organization or project identifier that is
\* present but not a uuid is denied with InvalidIdentifierFormat before the
\* organization-membership, project or project-membership lookup is issued
\* with it.
C25_AuthorizationGuardIdentifierFailFast ==
    guard = AG
    => /\ (Truthy(headers.organizationId) /\ ~validate(headers.organizationId))
            => /\ calls = <<>>
               /\ pc = "done" => /\ result = "deny"
                                 /\ error.kind = "InvalidIdentifierFormat"
       /\ (Truthy(headers.projectId) /\ ~validate(headers.projectId))
            => /\ ~C24_Issued("project")
               /\ ~C24_Issued("projectMember")
               /\ pc = "done" => result = "deny"

\* the error AuthorizationGuard.canActivate ends with (NoError: it returns
\* true), computed from the request, the metadata and the collaborators'
\* answers alone
C26_AG_Decision ==
    IF headers.organizationId = "absent"
    THEN AG_handleError(TypeError("organizationId"))
    ELSE IF organizationMembers.throws
    THEN AG_handleError(AG_handleError(LookupError("organizationMember")))
    ELSE IF AG_OrganizationCheck(organizationMembers) # NoError
    THEN AG_handleError(AG_OrganizationCheck(organizationMembers))
    ELSE IF headers.projectId = "absent"
    THEN AG_handleError(TypeError("projectId"))
    ELSE IF getProjectById(project) # NoError
    THEN AG_handleError(AG_handleError(getProjectById(project)))
    ELSE IF projectMember.throws
    THEN AG_handleError(AG_handleError(LookupError("projectMember")))
    ELSE LET e == AG_ProjectCheck(
                      OrganizationRoleInsufficient(organizationMembers.role,
                                                   meta.accessRole),
                      meta.projectAccessRole, organizationMembers, projectMember)
         IN IF e # NoError THEN AG_handleError(AG_handleError(e)) ELSE NoError

\* the same for the environment guard; the answer of the environment lookup
\* and the moment it arrives are not among the arguments
C26_EG_Decision ==
    IF validateOrganizationId(headers.organizationId) # NoError
    THEN EG_handleError(EG_handleError(validateOrganizationId(headers.organizationId)))
    ELSE IF Truthy(headers.projectId) /\ ~validate(headers.projectId)
    THEN EG_handleError(BadRequestException("InvalidIdentifierFormat", "projectId"))
    ELSE IF SkipProjectValidation(meta.isProjectValidationOptional, headers.projectId)
    THEN NoError
    ELSE IF ~Truthy(headers.projectId)
    THEN EG_handleError(Raise("GuardValidationFailedException", "MissingProject",
                              "projectId"))
    ELSE IF organizationMembers.throws
    THEN EG_handleError(EG_handleError(LookupError("organizationMember")))
    ELSE IF EG_OrganizationCheck(organizationMembers) # NoError
    THEN EG_handleError(EG_handleError(EG_OrganizationCheck(organizationMembers)))
    ELSE IF getProjectById(project) # NoError
    THEN EG_handleError(EG_handleError(getProjectById(project)))
    ELSE IF projectMember.throws
    THEN EG_handleError(EG_handleError(LookupError("projectMember")))
    ELSE LET e == EG_ProjectCheck(project, meta.projectAccessRole,
                                  organizationMembers, projectMember)
         IN IF e # NoError THEN EG_handleError(EG_handleError(e)) ELSE NoError

C26_Decision == IF guard = AG THEN C26_AG_Decision ELSE C26_EG_Decision

\* C26: the decision of either guard (allow, or deny and the tag of the error)
\* is a function of the request, the metadata and the answers of the
\* collaborators: two runs that agree on these end with the same decision,
\* whatever the order in which the un-awaited checks and the awaited lookups
\* complete, and the decision does not change once taken.
C26_Deterministic ==
    pc = "done"
    => /\ result = (IF C26_Decision = NoError THEN "allow" ELSE "deny")
       /\ error = C26_Decision

\* a decision taken while the environment lookup has not answered yet
C26_Witness ==
    /\ guard = EG
    /\ result = "deny"
    /\ error.kind = "InsufficientRole"
    /\ envPromise = "pending"

\* C27: the environment guard returns true through the whole pipeline only
\* after the environment-existence check completed and found the environment;
\* never while that check is pending, and never after it failed.
C27_EnvironmentGatesDecision ==
    (guard = EG /\ FullPipelineAllow)
    => /\ envPromise = "fulfilled"
       /\ environment = "found"

\* C28: in both guards request.project is assigned only on success: when
\* canActivate denies (project-membership lookup failure, NotProjectMember,
\* InsufficientRole, project tenant gate) request.project is as it was before
\* the call.
C28_ProjectAttachedOnlyOnSuccess ==
    result = "deny" => requestProject = NoProject

\* the exceptionCount of the group of the environment when the calls started
\* (0 when there was none)
C29_CountAtStart ==
    IF GroupsOf(groupsAtStart, 1) = {} THEN 0
    ELSE (CHOOSE g \in GroupsOf(groupsAtStart, 1) : TRUE).exceptionCount

\* C29: when N concurrent logAnExceptionGroup(log, true) calls for one
\* exception type and environment have all returned, whatever their
\* interleaving and also when a find-existing lookup failed, the table holds
\* exactly one group for that pair and its exceptionCount has grown by N.
C29_OneGroupCountedOnce ==
    (\A c \in DOMAIN logCalls : logCalls[c].pc = "done")
    => /\ Cardinality(GroupsOf(exceptionGroups, 1)) = 1
       /\ \A g \in GroupsOf(exceptionGroups, 1) :
             g.exceptionCount = C29_CountAtStart + Len(logCalls)

\* the paging step: a non-empty page moves skip by the page size and the loop
\* goes on with the same environment, an empty page stops the loop
C30_PagingStep ==
    mapPc = "findExceptionLogs"
    => IF PageLength(exceptionLogs[environmentIndex].total, skip, take) > 0
       THEN /\ skip' = skip + take
            /\ ~stopFlag'
            /\ mapPc' = "findExceptionLogs"
            /\ environmentIndex' = environmentIndex
       ELSE /\ stopFlag'
            /\ skip' = skip
            /\ mapPc' = "nextEnvironment"

\* C30: mapRecordsToExceptionGroupTable terminates for every finite set of
\* environments and exception logs when every repository call returns: for
\* each environment a non-empty page advances skip by the page size, the first
\* empty page stops the paging loop, and in the end the operation returns its
\* success message.
C30_MappingTerminates ==
    /\ [][C30_PagingStep]_vars
    /\ <>(mapPc = "done" /\ mapResult = "Mapped Records Successfully")

\* the operation has returned after paging through an environment with more
\* than one page of logs
C30_Witness ==
    /\ mapPc = "done"
    /\ mapResult = "Mapped Records Successfully"
    /\ stopFlag
    /\ skip >= 2 * take
    /\ \E e \in DOMAIN groupedLogs : groupedLogs[e] > 1

====
